---------------------------- MODULE Spec2Model ----------------------------
(***************************************************************************)
(* Terrapin-style SSH sequence-number demo: the packet model of            *)
(* src/src/utils.py, the drop-set selector of src/src/attack_proxy.py and  *)
(* the command handlers of src/src/cli.py and src/web_app.py.              *)
(***************************************************************************)
EXTENDS Integers, Sequences, FiniteSets, TLC

(***************************************************************************)
(* Bounds of the model.                                                    *)
(***************************************************************************)
\* longest trace (number of raw records) of the command pipeline
MaxLen == 4
\* longest trace of the function-level specification SpecFn
FnLen == 3
\* longest baseline handed to the diff in SpecDiff
DiffLen == 2
\* longest raw trace of SpecLoad
LoadLen == 2

(***************************************************************************)
(* Python values.  An optional int (int | None) is a set with at most one  *)
(* element; a JSON/YAML scalar or list is a record with a type tag t, an   *)
(* integer payload i (the int, or a float in tenths), a string payload s   *)
(* (a sequence of characters) and a list payload l.                        *)
(***************************************************************************)
None == {}
Some(n) == {n}
TheVal(o) == CHOOSE x \in o : TRUE

JInt(n) == [t |-> "int", i |-> n, s |-> << >>, l |-> << >>]
JFloat(tenths) == [t |-> "float", i |-> tenths, s |-> << >>, l |-> << >>]
JStr(cs) == [t |-> "str", i |-> 0, s |-> cs, l |-> << >>]
JNull == [t |-> "null", i |-> 0, s |-> << >>, l |-> << >>]
JList(xs) == [t |-> "list", i |-> 0, s |-> << >>, l |-> xs]
\* a key that the mapping does not hold
Absent == [t |-> "absent", i |-> 0, s |-> << >>, l |-> << >>]

Digits == <<"0", "1", "2", "3", "4", "5", "6", "7", "8", "9">>
IsDigit(c) == \E d \in 1..10 : Digits[d] = c
DigitVal(c) == (CHOOSE d \in 1..10 : Digits[d] = c) - 1

RECURSIVE DigitsValue(_)
DigitsValue(cs) ==
    IF cs = << >> THEN 0
    ELSE 10 * DigitsValue(SubSeq(cs, 1, Len(cs) - 1)) + DigitVal(cs[Len(cs)])

AllDigits(cs) == cs # << >> /\ \A k \in 1..Len(cs) : IsDigit(cs[k])

Returned(v) == [ok |-> TRUE, val |-> v, exc |-> ""]
Raised(e) == [ok |-> FALSE, val |-> 0, exc |-> e]

\* int(x): an int is kept, a float is truncated toward zero, a string is
\* parsed as an optionally signed decimal literal (surrounding blanks and
\* digit-group underscores, which int() also accepts, are not among the
\* strings used here), anything else is a TypeError.
PyInt(x) ==
    CASE x.t = "int" -> Returned(x.i)
      [] x.t = "float" ->
            Returned(IF x.i >= 0 THEN x.i \div 10 ELSE 0 - ((0 - x.i) \div 10))
      [] x.t = "str" ->
            IF AllDigits(x.s) THEN Returned(DigitsValue(x.s))
            ELSE IF Len(x.s) > 1 /\ x.s[1] = "-" /\ AllDigits(Tail(x.s))
                 THEN Returned(0 - DigitsValue(Tail(x.s)))
            ELSE IF Len(x.s) > 1 /\ x.s[1] = "+" /\ AllDigits(Tail(x.s))
                 THEN Returned(DigitsValue(Tail(x.s)))
            ELSE Raised("ValueError")
      [] OTHER -> Raised("TypeError")

RECURSIVE NatStr(_)
NatStr(n) ==
    IF n < 10 THEN <<Digits[n + 1]>>
    ELSE NatStr(n \div 10) \o <<Digits[(n % 10) + 1]>>

\* str(n) of an int
IntStr(n) == IF n < 0 THEN <<"-">> \o NatStr(0 - n) ELSE NatStr(n)

\* str(x) of a string, an int or None
PyStr(x) ==
    CASE x.t = "str" -> x.s
      [] x.t = "int" -> IntStr(x.i)
      [] OTHER -> <<"N", "o", "n", "e">>

(***************************************************************************)
(* utils.py: Direction and Packet.                                         *)
(***************************************************************************)
CLIENT_TO_SERVER == "C->S"
SERVER_TO_CLIENT == "S->C"
DirectionValues == {CLIENT_TO_SERVER, SERVER_TO_CLIENT}

\* the characters of a direction as they stand in the trace file
DirChars(d) ==
    IF d = CLIENT_TO_SERVER THEN <<"C", "-", ">", "S">> ELSE <<"S", "-", ">", "C">>

\* Direction(direction_str): the member with that value, or ValueError
Direction(x) ==
    IF x.t = "str" /\ \E d \in DirectionValues : DirChars(d) = x.s
    THEN Returned(CHOOSE d \in DirectionValues : DirChars(d) = x.s)
    ELSE Raised("ValueError")

Packet(index, direction, payload_len, msg_type, seq_no, dropped) ==
    [index |-> index, direction |-> direction, payload_len |-> payload_len,
     msg_type |-> msg_type, seq_no |-> seq_no, dropped |-> dropped]

(***************************************************************************)
(* utils.py: load_packet_trace.  The result is what the caller receives:   *)
(* the packet list, or the exception and the field where it was raised.    *)
(***************************************************************************)
Loaded(pkts) == [ok |-> TRUE, packets |-> pkts, exc |-> "", site |-> ""]
LoadRaised(e, where) == [ok |-> FALSE, packets |-> << >>, exc |-> e, site |-> where]

RECURSIVE LoadLoop(_, _, _)
LoadLoop(raw_packets, idx, packets) ==
    IF idx >= Len(raw_packets) THEN Loaded(packets)
    ELSE LET item == raw_packets[idx + 1] IN
         IF item.direction = Absent THEN LoadRaised("KeyError", "direction")
         ELSE IF ~Direction(item.direction).ok THEN LoadRaised("ValueError", "direction")
         ELSE IF item.payload_len = Absent THEN LoadRaised("KeyError", "payload_len")
         ELSE IF ~PyInt(item.payload_len).ok
              THEN LoadRaised(PyInt(item.payload_len).exc, "payload_len")
         ELSE IF item.msg_type = Absent THEN LoadRaised("KeyError", "msg_type")
         ELSE LoadLoop(raw_packets, idx + 1,
                       Append(packets,
                              Packet(idx, Direction(item.direction).val,
                                     PyInt(item.payload_len).val,
                                     PyStr(item.msg_type), None, FALSE)))

\* a record that cannot be converted is skipped instead of failing the load
RECURSIVE SkipLoop(_, _, _)
SkipLoop(raw_packets, idx, packets) ==
    IF idx >= Len(raw_packets) THEN Loaded(packets)
    ELSE LET item == raw_packets[idx + 1] IN
         IF \/ item.direction = Absent \/ ~Direction(item.direction).ok
            \/ item.payload_len = Absent \/ ~PyInt(item.payload_len).ok
            \/ item.msg_type = Absent
         THEN SkipLoop(raw_packets, idx + 1, packets)
         ELSE SkipLoop(raw_packets, idx + 1,
                       Append(packets,
                              Packet(idx, Direction(item.direction).val,
                                     PyInt(item.payload_len).val,
                                     PyStr(item.msg_type), None, FALSE)))

LoadSkippingBadRecords(raw_packets) == SkipLoop(raw_packets, 0, << >>)

load_packet_trace(raw_packets) == LoadLoop(raw_packets, 0, << >>)

(***************************************************************************)
(* utils.py: compute_sequence_numbers.                                     *)
(***************************************************************************)
RECURSIVE SeqLoop(_, _, _, _, _)
SeqLoop(packets, k, seq_c2s, seq_s2c, result) ==
    IF k > Len(packets) THEN result
    ELSE LET pkt == packets[k] IN
         IF pkt.direction = CLIENT_TO_SERVER
         THEN SeqLoop(packets, k + 1, seq_c2s + 1, seq_s2c,
                      Append(result, [pkt EXCEPT !.seq_no = Some(seq_c2s)]))
         ELSE SeqLoop(packets, k + 1, seq_c2s, seq_s2c + 1,
                      Append(result, [pkt EXCEPT !.seq_no = Some(seq_s2c)]))

\* a single counter shared by both directions
SharedCounterSequenceNumbers(packets) ==
    [k \in 1..Len(packets) |-> [packets[k] EXCEPT !.seq_no = Some(k - 1)]]

compute_sequence_numbers(packets) == SeqLoop(packets, 1, 0, 0, << >>)

(***************************************************************************)
(* utils.py: apply_drop_indices and filter_visible_packets.                *)
(***************************************************************************)
\* set(drop_indices)
SetOf(xs) == {xs[k] : k \in 1..Len(xs)}

\* the flag is assigned from membership, clearing a flag that was set
AssignDropFlag(packets, drop_indices) ==
    [k \in 1..Len(packets) |->
        [packets[k] EXCEPT !.dropped = packets[k].index \in SetOf(drop_indices)]]

\* only the first target is looked at
DropFirstTargetOnly(packets, drop_indices) ==
    [k \in 1..Len(packets) |->
        IF drop_indices # << >> /\ packets[k].index = drop_indices[1]
        THEN [packets[k] EXCEPT !.dropped = TRUE]
        ELSE packets[k]]

apply_drop_indices(packets, drop_indices) ==
    LET drop_set == SetOf(drop_indices) IN
    [k \in 1..Len(packets) |->
        IF packets[k].index \in drop_set
        THEN [packets[k] EXCEPT !.dropped = TRUE]
        ELSE packets[k]]

\* nothing is filtered out
KeepAll(packets) == packets

\* the condition of the filter is inverted
KeepOnlyDropped(packets) == SelectSeq(packets, LAMBDA pkt : pkt.dropped)

RECURSIVE FilterLoop(_, _)
FilterLoop(packets, k) ==
    IF k > Len(packets) THEN << >>
    ELSE IF ~packets[k].dropped THEN <<packets[k]>> \o FilterLoop(packets, k + 1)
    ELSE FilterLoop(packets, k + 1)

filter_visible_packets(packets) == FilterLoop(packets, 1)

(***************************************************************************)
(* web_app.py: build_diff; utils.py: the rows of print_sequence_diff.      *)
(***************************************************************************)
EmptyDict == [k \in {} |-> 0]
DictSet(m, key, v) == [k \in DOMAIN m \cup {key} |-> IF k = key THEN v ELSE m[k]]
DictGet(m, key) == IF key \in DOMAIN m THEN Some(m[key]) ELSE None

RECURSIVE BaseSeqLoop(_, _)
BaseSeqLoop(baseline, n) ==
    IF n = 0 THEN EmptyDict
    ELSE LET m == BaseSeqLoop(baseline, n - 1)
             pkt == baseline[n]
         IN IF pkt.seq_no # None THEN DictSet(m, pkt.index, TheVal(pkt.seq_no)) ELSE m

base_seq_by_index(baseline) == BaseSeqLoop(baseline, Len(baseline))

\* a row is flagged as soon as either number is missing or they differ
ChangedWhenUnknown(seq_before, seq_after) ==
    seq_before = None \/ seq_after = None \/ seq_before # seq_after

\* only an increase counts as a change
ChangedOnIncrease(seq_before, seq_after) ==
    seq_before # None /\ seq_after # None /\ TheVal(seq_after) > TheVal(seq_before)

Changed(seq_before, seq_after) ==
    seq_before # None /\ seq_after # None /\ seq_before # seq_after

DiffRow(m, pkt) ==
    [index |-> pkt.index, direction |-> pkt.direction, msg_type |-> pkt.msg_type,
     seq_before |-> DictGet(m, pkt.index), seq_after |-> pkt.seq_no,
     changed |-> Changed(DictGet(m, pkt.index), pkt.seq_no)]

build_diff(baseline, after_attack) ==
    LET m == base_seq_by_index(baseline) IN
    [k \in 1..Len(after_attack) |-> DiffRow(m, after_attack[k])]

SeqStr(o) == IF o = None THEN <<"?">> ELSE IntStr(TheVal(o))

PrintedRow(m, pkt) ==
    [index |-> pkt.index, direction |-> pkt.direction, msg_type |-> pkt.msg_type,
     before_str |-> SeqStr(DictGet(m, pkt.index)), after_str |-> SeqStr(pkt.seq_no),
     changed |-> IF Changed(DictGet(m, pkt.index), pkt.seq_no) THEN "yes" ELSE "no"]

print_sequence_diff(baseline, after_attack) ==
    LET m == base_seq_by_index(baseline) IN
    [k \in 1..Len(after_attack) |-> PrintedRow(m, after_attack[k])]

(***************************************************************************)
(* attack_proxy.py: load_config, select_drop_indices.  A configuration is  *)
(* a record: t is "dict" when the YAML document is a mapping; profiles is  *)
(* a value with its own tag t and, when a mapping, its entries d (profile  *)
(* name -> profile); a profile has a tag t and the two keys the selector   *)
(* reads.                                                                  *)
(***************************************************************************)
Config(pcap_file, profiles, active_profile, drop_indices) ==
    [t |-> "dict", pcap_file |-> pcap_file, profiles |-> profiles,
     active_profile |-> active_profile, drop_indices |-> drop_indices]
NotAMapping ==
    [t |-> "list", pcap_file |-> Absent, profiles |-> [t |-> "absent", d |-> EmptyDict],
     active_profile |-> Absent, drop_indices |-> Absent]
ProfilesOf(t, d) == [t |-> t, d |-> d]
NoProfiles == ProfilesOf("absent", EmptyDict)
Profile(drop_indices, description) ==
    [t |-> "dict", drop_indices |-> drop_indices, description |-> description]
NotAProfile == [t |-> "list", drop_indices |-> Absent, description |-> Absent]

Selected(indices, description) ==
    [ok |-> TRUE, indices |-> indices, description |-> description,
     exc |-> "", site |-> ""]
SelectRaised(e, where) ==
    [ok |-> FALSE, indices |-> << >>, description |-> << >>, exc |-> e, site |-> where]

\* [int(i) for i in drop_indices]: the list, or the first exception
RECURSIVE IntList(_)
IntList(xs) ==
    IF xs = << >> THEN Returned(<< >>)
    ELSE LET h == PyInt(Head(xs)) IN
         IF ~h.ok THEN Raised(h.exc)
         ELSE LET r == IntList(Tail(xs)) IN
              IF ~r.ok THEN r ELSE Returned(<<h.val>> \o r.val)

TopLevelDescription ==
    <<"t", "o", "p", "-", "l", "e", "v", "e", "l", " ",
      "d", "r", "o", "p", "_", "i", "n", "d", "i", "c", "e", "s">>
DefaultDescription(name) ==
    <<"p", "r", "o", "f", "i", "l", "e", " ", "'">> \o name \o <<"'">>

\* dict.get(key, default) on a value that may be Absent
GetOr(v, default) == IF v = Absent THEN default ELSE v

select_drop_indices(config) ==
    LET profiles == config.profiles
        active_profile == config.active_profile
    IN
    IF profiles.t = "dict" /\ active_profile.t = "str"
    THEN LET profile == IF active_profile.s \in DOMAIN profiles.d
                        THEN profiles.d[active_profile.s] ELSE NotAProfile
         IN IF profile.t # "dict" THEN SelectRaised("ValueError", "profile")
            ELSE LET drop_indices == GetOr(profile.drop_indices, JList(<< >>)) IN
                 IF drop_indices.t # "list"
                 THEN SelectRaised("ValueError", "profile_drop_indices")
                 ELSE IF ~IntList(drop_indices.l).ok
                      THEN SelectRaised(IntList(drop_indices.l).exc, "int")
                 ELSE Selected(IntList(drop_indices.l).val,
                               PyStr(GetOr(profile.description,
                                           JStr(DefaultDescription(active_profile.s)))))
    ELSE LET drop_indices == GetOr(config.drop_indices, JList(<< >>)) IN
         IF drop_indices.t # "list" THEN SelectRaised("ValueError", "drop_indices")
         ELSE IF ~IntList(drop_indices.l).ok
              THEN SelectRaised(IntList(drop_indices.l).exc, "int")
         ELSE Selected(IntList(drop_indices.l).val, TopLevelDescription)

\* load_config, then (run_demo only) config["pcap_file"], then the selector
configure(config, needs_pcap_file) ==
    IF config.t # "dict" THEN SelectRaised("ValueError", "config")
    ELSE IF needs_pcap_file /\ config.pcap_file = Absent
         THEN SelectRaised("ValueError", "pcap_file")
    ELSE select_drop_indices(config)

(***************************************************************************)
(* cli.py / web_app.py: the random drop set of explore mode.               *)
(***************************************************************************)
RECURSIVE ClientLoop(_, _)
ClientLoop(baseline, k) ==
    IF k > Len(baseline) THEN << >>
    ELSE IF baseline[k].direction = CLIENT_TO_SERVER
         THEN <<baseline[k].index>> \o ClientLoop(baseline, k + 1)
    ELSE ClientLoop(baseline, k + 1)

client_indices(baseline) == ClientLoop(baseline, 1)

Min(a, b) == IF a < b THEN a ELSE b
Max(a, b) == IF a > b THEN a ELSE b

DropCount(random_drop, n) == Max(0, Min(random_drop, n))

\* random.sample(population, k): k elements at pairwise distinct positions,
\* in any order
RandomSamples(population, k) ==
    {[j \in 1..k |-> population[p[j]]] :
        p \in {q \in [1..k -> 1..Len(population)] :
                 \A a, b \in 1..k : a # b => q[a] # q[b]}}

RECURSIVE Insert(_, _)
Insert(x, xs) ==
    IF xs = << >> THEN <<x>>
    ELSE IF x <= Head(xs) THEN <<x>> \o xs
    ELSE <<Head(xs)>> \o Insert(x, Tail(xs))

RECURSIVE SortLoop(_)
SortLoop(xs) == IF xs = << >> THEN << >> ELSE Insert(Head(xs), SortLoop(Tail(xs)))

\* the sample is used in the order drawn
Unsorted(xs) == xs

sorted(xs) == SortLoop(xs)

(***************************************************************************)
(* utils.py at the level of objects.  A Packet object is a position of     *)
(* heap.objects, a list object a position of heap.lists holding Packet     *)
(* positions; a function receives a list object and returns the heap it    *)
(* leaves behind with the list object it returns.                          *)
(***************************************************************************)
EmptyHeap == [objects |-> << >>, lists |-> << >>]
NoLocals ==
    [packets |-> 0, baseline |-> 0, attacked |-> 0, visible |-> 0,
     visible_with_seq |-> 0]

\* Packet(...) : a new object
NewPacket(h, pkt) == [h EXCEPT !.objects = Append(@, pkt)]
\* a new list object holding these Packet positions
NewList(h, ids) == [heap |-> [h EXCEPT !.lists = Append(@, ids)], result |-> Len(h.lists) + 1]

\* packets.append(Packet(index=idx, ...)) for every record
RECURSIVE HeapLoadLoop(_, _, _, _)
HeapLoadLoop(h, pkts, k, result) ==
    IF k > Len(pkts) THEN NewList(h, result)
    ELSE HeapLoadLoop(NewPacket(h, pkts[k]), pkts, k + 1,
                      Append(result, Len(h.objects) + 1))

heap_load_packet_trace(h, raw_packets) ==
    HeapLoadLoop(h, load_packet_trace(raw_packets).packets, 1, << >>)

\* the numbers are assigned to the caller's objects, which are returned
RECURSIVE InPlaceSeqLoop(_, _, _, _, _)
InPlaceSeqLoop(h, ids, k, seq_c2s, seq_s2c) ==
    IF k > Len(ids) THEN h
    ELSE IF h.objects[ids[k]].direction = CLIENT_TO_SERVER
         THEN InPlaceSeqLoop([h EXCEPT !.objects[ids[k]].seq_no = Some(seq_c2s)],
                             ids, k + 1, seq_c2s + 1, seq_s2c)
         ELSE InPlaceSeqLoop([h EXCEPT !.objects[ids[k]].seq_no = Some(seq_s2c)],
                             ids, k + 1, seq_c2s, seq_s2c + 1)

NumberingInPlace(h, packets) ==
    [heap |-> InPlaceSeqLoop(h, h.lists[packets], 1, 0, 0), result |-> packets]

\* pkt_copy = Packet(...); pkt_copy.seq_no = ...; result.append(pkt_copy)
RECURSIVE HeapSeqLoop(_, _, _, _, _, _)
HeapSeqLoop(h, ids, k, seq_c2s, seq_s2c, result) ==
    IF k > Len(ids) THEN NewList(h, result)
    ELSE LET pkt == h.objects[ids[k]]
             pkt_copy == Packet(pkt.index, pkt.direction, pkt.payload_len,
                                pkt.msg_type, pkt.seq_no, pkt.dropped)
             at == Len(h.objects) + 1
         IN IF pkt_copy.direction = CLIENT_TO_SERVER
            THEN HeapSeqLoop(NewPacket(h, [pkt_copy EXCEPT !.seq_no = Some(seq_c2s)]),
                             ids, k + 1, seq_c2s + 1, seq_s2c, Append(result, at))
            ELSE HeapSeqLoop(NewPacket(h, [pkt_copy EXCEPT !.seq_no = Some(seq_s2c)]),
                             ids, k + 1, seq_c2s, seq_s2c + 1, Append(result, at))

heap_compute_sequence_numbers(h, packets) ==
    HeapSeqLoop(h, h.lists[packets], 1, 0, 0, << >>)

\* pkt_copy = Packet(...); pkt_copy.dropped = True; result.append(pkt_copy)
RECURSIVE HeapDropLoop(_, _, _, _, _)
HeapDropLoop(h, ids, k, drop_set, result) ==
    IF k > Len(ids) THEN NewList(h, result)
    ELSE LET pkt == h.objects[ids[k]]
             pkt_copy == Packet(pkt.index, pkt.direction, pkt.payload_len,
                                pkt.msg_type, pkt.seq_no, pkt.dropped)
         IN HeapDropLoop(NewPacket(h, IF pkt_copy.index \in drop_set
                                      THEN [pkt_copy EXCEPT !.dropped = TRUE]
                                      ELSE pkt_copy),
                         ids, k + 1, drop_set, Append(result, Len(h.objects) + 1))

heap_apply_drop_indices(h, packets, drop_indices) ==
    HeapDropLoop(h, h.lists[packets], 1, SetOf(drop_indices), << >>)

\* [pkt for pkt in packets if not pkt.dropped]: a new list of the same objects
RECURSIVE HeapFilterLoop(_, _, _)
HeapFilterLoop(h, ids, k) ==
    IF k > Len(ids) THEN << >>
    ELSE IF ~h.objects[ids[k]].dropped THEN <<ids[k]>> \o HeapFilterLoop(h, ids, k + 1)
    ELSE HeapFilterLoop(h, ids, k + 1)

heap_filter_visible_packets(h, packets) ==
    NewList(h, HeapFilterLoop(h, h.lists[packets], 1))

(***************************************************************************)
(* State.                                                                  *)
(***************************************************************************)
VARIABLES
    cmd,            \* the command or HTTP mode being served
    pc,             \* the handler's position
    raw,            \* the records of the trace file
    config,         \* the YAML configuration document
    random_drop,    \* --random-drop / "random_drop"
    packets,        \* load_packet_trace's result
    baseline,       \* compute_sequence_numbers(packets)
    drop_indices,   \* the selected or sampled drop list
    description,    \* the selector's description
    attacked,       \* apply_drop_indices(baseline, drop_indices)
    visible,        \* filter_visible_packets(attacked)
    after,          \* the post-drop trace with its sequence numbers
    diff,           \* build_diff's rows (HTTP)
    printed,        \* print_sequence_diff's rows (CLI)
    out,            \* exception, HTTP status, response keys, printed notices
    logs,           \* snapshot files written by run_demo
    fn_in,          \* SpecFn: argument of the last transformation
    fn_targets,     \* SpecFn: drop_indices argument of the last transformation
    fn_op,          \* SpecFn: the last transformation
    fn_out,         \* SpecFn: its result
    heap,           \* SpecHeap: the Packet objects and the list objects
    locals          \* SpecHeap: the list each local variable refers to

vars == <<cmd, pc, raw, config, random_drop, packets, baseline, drop_indices,
          description, attacked, visible, after, diff, printed, out, logs,
          fn_in, fn_targets, fn_op, fn_out, heap, locals>>

pipeVars == <<packets, baseline, drop_indices, description, attacked, visible,
              after, diff, printed, out, logs>>
inputVars == <<cmd, raw, config, random_drop>>
fnVars == <<fn_in, fn_targets, fn_op, fn_out>>
heapVars == <<heap, locals>>

NoOut == [exc |-> "", site |-> "", status |-> 0, keys |-> {}, notices |-> << >>]

KEXINIT == <<"K", "E", "X", "I", "N", "I", "T">>
NEWKEYS == <<"N", "E", "W", "K", "E", "Y", "S">>

\* a well-formed record of the trace file; label and length follow the position
SampleRecord(d, k) ==
    [direction |-> JStr(DirChars(d)),
     payload_len |-> JInt(16 * k),
     msg_type |-> JStr(IF k = 1 THEN KEXINIT ELSE NEWKEYS)]

\* the well-formed traces of at most n records
TracesUpTo(n) ==
    UNION {{[k \in 1..m |-> SampleRecord(ds[k], k)] : ds \in [1..m -> DirectionValues]} :
           m \in 0..n}

\* index collections of length at most two over 0..n: empty, single,
\* repeated, and indices that match no packet
IndexLists(n) ==
    {<< >>} \cup {<<i>> : i \in 0..n} \cup {<<i, j>> : i \in 0..n, j \in 0..n}

IntsAsJson(xs) == JList([k \in 1..Len(xs) |-> JInt(xs[k])])

ProfileP == <<"p">>
ProfileQ == <<"q">>
TracePath == JStr(<<"t", ".", "j", "s", "o", "n">>)

Commands ==
    {"cli_baseline", "cli_attack", "cli_explore",
     "api_baseline", "api_attack", "api_explore", "api_unknown"}
IsCli == cmd \in {"cli_baseline", "cli_attack", "cli_explore"}
IsAttack == cmd \in {"cli_attack", "api_attack"}
IsExplore == cmd \in {"cli_explore", "api_explore"}

\* configurations of the attack commands: a flat list, the same list in a
\* named profile, and the documents the handlers reject
MainConfigs ==
    {Config(TracePath, NoProfiles, Absent, IntsAsJson(xs)) : xs \in IndexLists(MaxLen)}
    \cup {Config(TracePath,
                 ProfilesOf("dict", [n \in {ProfileP} |-> Profile(IntsAsJson(xs), Absent)]),
                 JStr(ProfileP), Absent) : xs \in {<<0>>, <<1, 0>>}}
    \cup {NotAMapping,
          Config(Absent, NoProfiles, Absent, IntsAsJson(<<0>>)),
          Config(TracePath, ProfilesOf("dict", EmptyDict), JStr(ProfileQ), Absent),
          Config(TracePath, NoProfiles, Absent, JStr(<<"0">>))}

\* a trace file whose last record carries an unknown direction
BadTrace ==
    <<SampleRecord(CLIENT_TO_SERVER, 1),
      [SampleRecord(SERVER_TO_CLIENT, 2) EXCEPT !.direction = JStr(<<"X">>)]>>

\* a trace file whose first record carries a payload_len that is no number
MalformedTrace ==
    <<[SampleRecord(CLIENT_TO_SERVER, 1) EXCEPT !.payload_len = JStr(<<"x">>)],
      SampleRecord(SERVER_TO_CLIENT, 2)>>

(***************************************************************************)
(* The command handlers, one action per step.                              *)
(*   cli_baseline : handshake_demo.run_handshake_demo                      *)
(*   cli_attack   : attack_proxy.run_demo                                  *)
(*   cli_explore  : cli.cmd_explore                                        *)
(*   api_*        : web_app.api_run with mode baseline / attack / explore  *)
(*                  / anything else                                        *)
(***************************************************************************)
Init ==
    /\ cmd \in Commands
    /\ raw \in TracesUpTo(MaxLen) \cup {BadTrace, MalformedTrace}
    /\ config \in (IF IsAttack THEN MainConfigs ELSE {NotAMapping})
    /\ random_drop \in (IF IsExplore THEN (0 - 1)..(MaxLen + 1) ELSE {1})
    /\ pc = IF cmd = "cli_attack" THEN "select" ELSE "load"
    /\ packets = << >> /\ baseline = << >> /\ drop_indices = << >>
    /\ description = << >> /\ attacked = << >> /\ visible = << >>
    /\ after = << >> /\ diff = << >> /\ printed = << >>
    /\ out = NoOut /\ logs = << >>
    /\ fn_in = << >> /\ fn_targets = << >> /\ fn_op = "none" /\ fn_out = << >>
    /\ heap = EmptyHeap /\ locals = NoLocals

Raise(e, where) == [out EXCEPT !.exc = e, !.site = where]
Notice(tag) == [out EXCEPT !.notices = Append(@, tag)]
Respond(status, keys) == [out EXCEPT !.status = status, !.keys = keys]

\* run_demo lines 103-109; api_run lines 108-109
Select ==
    /\ pc = "select"
    /\ LET r == configure(config, cmd = "cli_attack") IN
       IF r.ok
       THEN /\ drop_indices' = r.indices
            /\ description' = r.description
            /\ pc' = IF cmd = "cli_attack" THEN "load" ELSE "drop"
            /\ out' = out
       ELSE /\ pc' = "error"
            /\ out' = Raise(r.exc, r.site)
            /\ UNCHANGED <<drop_indices, description>>
    /\ UNCHANGED <<packets, baseline, attacked, visible, after, diff, printed, logs>>
    /\ UNCHANGED <<inputVars, fnVars, heapVars>>

Load ==
    /\ pc = "load"
    /\ LET r == load_packet_trace(raw) IN
       IF r.ok
       THEN /\ packets' = r.packets
            /\ pc' = "baseline"
            /\ out' = out
       ELSE /\ pc' = "error"
            /\ out' = Raise(r.exc, r.site)
            /\ packets' = packets
    /\ UNCHANGED <<baseline, drop_indices, description, attacked, visible, after,
                   diff, printed, logs>>
    /\ UNCHANGED <<inputVars, fnVars, heapVars>>

\* the baseline snapshot is written as soon as the baseline is computed
BaselineWritingSnapshot ==
    /\ pc = "baseline"
    /\ baseline' = compute_sequence_numbers(packets)
    /\ logs' = IF cmd = "cli_attack"
               THEN Append(logs, [name |-> "baseline_trace",
                                  data |-> compute_sequence_numbers(packets)])
               ELSE logs
    /\ out' = IF IsCli THEN Notice("baseline_table") ELSE out
    /\ pc' = CASE cmd = "cli_baseline" -> "done"
               [] cmd = "cli_attack" -> "drop"
               [] cmd = "api_attack" -> "select"
               [] IsExplore -> "choose"
               [] OTHER -> "respond"
    /\ UNCHANGED <<packets, drop_indices, description, attacked, visible, after,
                   diff, printed>>
    /\ UNCHANGED <<inputVars, fnVars, heapVars>>

Baseline ==
    /\ pc = "baseline"
    /\ baseline' = compute_sequence_numbers(packets)
    /\ out' = IF IsCli THEN Notice("baseline_table") ELSE out
    /\ pc' = CASE cmd = "cli_baseline" -> "done"
               [] cmd = "cli_attack" -> "drop"
               [] cmd = "api_attack" -> "select"
               [] IsExplore -> "choose"
               [] OTHER -> "respond"
    /\ UNCHANGED <<packets, drop_indices, description, attacked, visible, after,
                   diff, printed, logs>>
    /\ UNCHANGED <<inputVars, fnVars, heapVars>>

\* api_run: mode baseline (lines 97-105) and the unknown mode (line 168)
RespondBaseline ==
    /\ pc = "respond"
    /\ IF cmd = "api_baseline"
       THEN /\ after' = baseline
            /\ diff' = build_diff(baseline, baseline)
            /\ out' = Respond(200, {"mode", "baseline", "after", "diff"})
       ELSE /\ out' = Respond(400, {"error"})
            /\ UNCHANGED <<after, diff>>
    /\ pc' = "done"
    /\ UNCHANGED <<packets, baseline, drop_indices, description, attacked, visible,
                   printed, logs>>
    /\ UNCHANGED <<inputVars, fnVars, heapVars>>

\* cmd_explore lines 107-126
ChooseCli ==
    /\ pc = "choose" /\ cmd = "cli_explore"
    /\ LET cl == client_indices(baseline)
           k == DropCount(random_drop, Len(cl))
       IN IF cl = << >>
          THEN /\ out' = Notice("no_client_packets")
               /\ pc' = "done"
               /\ drop_indices' = drop_indices
          ELSE IF k = 0
          THEN /\ out' = Notice("nothing_to_drop")
               /\ pc' = "done"
               /\ drop_indices' = drop_indices
          ELSE /\ \E smp \in RandomSamples(cl, k) : drop_indices' = sorted(smp)
               /\ out' = Notice("randomly_dropping")
               /\ pc' = "drop"
    /\ UNCHANGED <<packets, baseline, description, attacked, visible, after, diff,
                   printed, logs>>
    /\ UNCHANGED <<inputVars, fnVars, heapVars>>

\* api_run lines 129-152
ChooseApi ==
    /\ pc = "choose" /\ cmd = "api_explore"
    /\ LET cl == client_indices(baseline)
           k == DropCount(random_drop, Len(cl))
       IN IF cl = << >> \/ random_drop <= 0
          THEN /\ after' = baseline
               /\ diff' = build_diff(baseline, baseline)
               /\ out' = Respond(200, {"mode", "error", "baseline", "after", "diff"})
               /\ pc' = "done"
               /\ drop_indices' = drop_indices
          ELSE /\ \E smp \in RandomSamples(cl, k) : drop_indices' = sorted(smp)
               /\ pc' = "drop"
               /\ UNCHANGED <<after, diff, out>>
    /\ UNCHANGED <<packets, baseline, description, attacked, visible, printed, logs>>
    /\ UNCHANGED <<inputVars, fnVars, heapVars>>

Drop ==
    /\ pc = "drop"
    /\ attacked' = apply_drop_indices(baseline, drop_indices)
    /\ out' = IF cmd = "cli_attack" THEN Notice("applying_attack") ELSE out
    /\ pc' = "filter"
    /\ UNCHANGED <<packets, baseline, drop_indices, description, visible, after,
                   diff, printed, logs>>
    /\ UNCHANGED <<inputVars, fnVars, heapVars>>

Filter ==
    /\ pc = "filter"
    /\ visible' = filter_visible_packets(attacked)
    /\ pc' = "reassign"
    /\ UNCHANGED <<packets, baseline, drop_indices, description, attacked, after,
                   diff, printed, out, logs>>
    /\ UNCHANGED <<inputVars, fnVars, heapVars>>

Reassign ==
    /\ pc = "reassign"
    /\ after' = compute_sequence_numbers(visible)
    /\ out' = IF IsCli THEN Notice("post_attack_table") ELSE out
    /\ pc' = "report"
    /\ UNCHANGED <<packets, baseline, drop_indices, description, attacked, visible,
                   diff, printed, logs>>
    /\ UNCHANGED <<inputVars, fnVars, heapVars>>

\* print_sequence_diff (CLI) or the JSON response with build_diff (HTTP)
Report ==
    /\ pc = "report"
    /\ IF IsCli
       THEN /\ printed' = print_sequence_diff(baseline, after)
            /\ out' = Notice("sequence_diff")
            /\ diff' = diff
       ELSE /\ diff' = build_diff(baseline, after)
            /\ out' = Respond(200,
                         IF cmd = "api_attack"
                         THEN {"mode", "description", "drop_indices", "baseline",
                               "after", "diff"}
                         ELSE {"mode", "chosen_indices", "baseline", "after", "diff"})
            /\ printed' = printed
    /\ pc' = IF cmd = "cli_attack" THEN "write_baseline" ELSE "done"
    /\ UNCHANGED <<packets, baseline, drop_indices, description, attacked, visible,
                   after, logs>>
    /\ UNCHANGED <<inputVars, fnVars, heapVars>>

\* serialize_packets_to_json(path, packets): the file and its content
Snapshot(name, pkts) == [name |-> name, data |-> pkts]

WriteBaseline ==
    /\ pc = "write_baseline"
    /\ logs' = Append(logs, Snapshot("baseline_trace", baseline))
    /\ pc' = "write_attacked"
    /\ UNCHANGED <<packets, baseline, drop_indices, description, attacked, visible,
                   after, diff, printed, out>>
    /\ UNCHANGED <<inputVars, fnVars, heapVars>>

WriteAttacked ==
    /\ pc = "write_attacked"
    /\ logs' = Append(logs, Snapshot("post_attack_trace", after))
    /\ out' = Notice("demo_complete")
    /\ pc' = "done"
    /\ UNCHANGED <<packets, baseline, drop_indices, description, attacked, visible,
                   after, diff, printed>>
    /\ UNCHANGED <<inputVars, fnVars, heapVars>>

Next ==
    \/ Select \/ Load \/ Baseline \/ RespondBaseline \/ ChooseCli \/ ChooseApi
    \/ Drop \/ Filter \/ Reassign \/ Report \/ WriteBaseline \/ WriteAttacked

Spec == Init /\ [][Next]_vars

(***************************************************************************)
(* SpecFn: the three transformations of utils.py applied in any order to   *)
(* a loaded trace, so that each one meets inputs with stale sequence       *)
(* numbers, flags already set and indices already filtered out.            *)
(***************************************************************************)
\* target collections: empty, single, and a repeated index around a second
\* one; index FnLen matches no packet
FnTargets ==
    {<< >>} \cup {<<i>> : i \in 0..FnLen}
    \cup {<<i, j, i>> : i \in 0..FnLen, j \in 0..FnLen}

InitFn ==
    /\ cmd = "none" /\ pc = "fn"
    /\ raw \in TracesUpTo(FnLen)
    /\ config = NotAMapping /\ random_drop = 1
    /\ packets = << >> /\ baseline = << >> /\ drop_indices = << >>
    /\ description = << >> /\ attacked = << >> /\ visible = << >>
    /\ after = << >> /\ diff = << >> /\ printed = << >>
    /\ out = NoOut /\ logs = << >>
    /\ fn_in = << >> /\ fn_targets = << >> /\ fn_op = "load"
    /\ fn_out = load_packet_trace(raw).packets
    /\ heap = EmptyHeap /\ locals = NoLocals

FnCompute ==
    /\ pc = "fn"
    /\ fn_in' = fn_out /\ fn_targets' = << >> /\ fn_op' = "compute"
    /\ fn_out' = compute_sequence_numbers(fn_out)
    /\ UNCHANGED <<pc, inputVars, pipeVars, heapVars>>

FnDrop ==
    /\ pc = "fn"
    /\ \E t \in FnTargets :
          /\ fn_in' = fn_out /\ fn_targets' = t /\ fn_op' = "drop"
          /\ fn_out' = apply_drop_indices(fn_out, t)
    /\ UNCHANGED <<pc, inputVars, pipeVars, heapVars>>

FnFilter ==
    /\ pc = "fn"
    /\ fn_in' = fn_out /\ fn_targets' = << >> /\ fn_op' = "filter"
    /\ fn_out' = filter_visible_packets(fn_out)
    /\ UNCHANGED <<pc, inputVars, pipeVars, heapVars>>

NextFn == FnCompute \/ FnDrop \/ FnFilter

SpecFn == InitFn /\ [][NextFn]_vars

\* number of packets of pkts[k]'s direction before position k
RankIn(pkts, k) ==
    Cardinality({j \in 1..(k - 1) : pkts[j].direction = pkts[k].direction})

\* C1: compute_sequence_numbers keeps length, order and every other field,
\* and numbers the packets of each direction 0, 1, ... in input order,
\* whatever seq_no and dropped the input carried.
C1_SequenceNumbers ==
    fn_op = "compute" =>
        /\ Len(fn_out) = Len(fn_in)
        /\ \A k \in 1..Len(fn_in) :
              /\ fn_out[k].index = fn_in[k].index
              /\ fn_out[k].direction = fn_in[k].direction
              /\ fn_out[k].payload_len = fn_in[k].payload_len
              /\ fn_out[k].msg_type = fn_in[k].msg_type
              /\ fn_out[k].dropped = fn_in[k].dropped
              /\ fn_out[k].seq_no = Some(RankIn(fn_in, k))

\* an input with both directions, holding a flagged packet whose stale
\* number is replaced
C1_Witness ==
    /\ fn_op = "compute"
    /\ \E a, b \in 1..Len(fn_in) : fn_in[a].direction # fn_in[b].direction
    /\ \E k \in 1..Len(fn_in) :
          /\ fn_in[k].dropped /\ fn_in[k].seq_no # None
          /\ fn_out[k].seq_no # fn_in[k].seq_no

\* C5: apply_drop_indices keeps length and order, sets dropped on exactly
\* the packets whose index is among the targets (repeated or unmatched
\* targets included), and leaves every other field and every other packet
\* as it was, a flag already set included.
C5_DropFrame ==
    fn_op = "drop" =>
        /\ Len(fn_out) = Len(fn_in)
        /\ \A k \in 1..Len(fn_in) :
              IF \E t \in 1..Len(fn_targets) : fn_targets[t] = fn_in[k].index
              THEN fn_out[k] = [fn_in[k] EXCEPT !.dropped = TRUE]
              ELSE fn_out[k] = fn_in[k]

\* a repeated target that matches, a target that matches nothing, and an
\* untargeted packet whose flag was already set
C5_Witness ==
    /\ fn_op = "drop" /\ Len(fn_targets) = 3
    /\ \E k \in 1..Len(fn_in) :
          fn_in[k].index = fn_targets[1] /\ ~fn_in[k].dropped /\ fn_out[k].dropped
    /\ \A k \in 1..Len(fn_in) : fn_in[k].index # fn_targets[2]
    /\ \E k \in 1..Len(fn_in) :
          fn_in[k].index # fn_targets[1] /\ fn_in[k].dropped /\ fn_out[k].dropped

(***************************************************************************)
(* Properties of the command pipeline (Spec).                              *)
(***************************************************************************)
\* the handler has recomputed the sequence numbers of the visible trace
Reassigned ==
    \/ pc \in {"report", "write_baseline", "write_attacked"}
    \/ pc = "done" /\ (IsAttack \/ (IsExplore /\ attacked # << >>))

\* the handler has produced its diff from a post-drop trace
Reported ==
    \/ pc \in {"write_baseline", "write_attacked"}
    \/ pc = "done" /\ (IsAttack \/ (IsExplore /\ attacked # << >>))

DropSet == {drop_indices[t] : t \in 1..Len(drop_indices)}
BaseIndices == {baseline[j].index : j \in 1..Len(baseline)}
BaseAt(i) == baseline[CHOOSE j \in 1..Len(baseline) : baseline[j].index = i]
SeqOf(pkt) == CHOOSE n \in pkt.seq_no : TRUE

\* C2: after dropping the single index i, a surviving packet of the other
\* direction keeps its baseline number, a surviving packet of i's direction
\* keeps it when its baseline rank is lower than i's and has it decremented
\* by exactly 1 when its baseline rank is greater.
C2_SingleDrop ==
    \A i \in BaseIndices :
        (Reassigned /\ DropSet = {i}) =>
            \A k \in 1..Len(after) :
                LET b == BaseAt(after[k].index)
                    d == BaseAt(i)
                IN /\ b.direction # d.direction => after[k].seq_no = b.seq_no
                   /\ (b.direction = d.direction /\ SeqOf(b) < SeqOf(d))
                         => after[k].seq_no = b.seq_no
                   /\ (b.direction = d.direction /\ SeqOf(b) > SeqOf(d))
                         => after[k].seq_no = Some(SeqOf(b) - 1)

\* one index dropped, with survivors of all three kinds
C2_Witness ==
    /\ Reassigned /\ Cardinality(DropSet) = 1 /\ DropSet \subseteq BaseIndices
    /\ Len(after) = Len(baseline) - 1
    /\ LET d == BaseAt(CHOOSE i \in DropSet : TRUE) IN
       /\ \E k \in 1..Len(after) : after[k].direction # d.direction
       /\ \E k \in 1..Len(after) :
             /\ after[k].direction = d.direction
             /\ SeqOf(BaseAt(after[k].index)) > SeqOf(d)
             /\ SeqOf(after[k]) = SeqOf(BaseAt(after[k].index)) - 1

\* a baseline packet of that direction, placed before index i, is dropped
DroppedBefore(i, direction) ==
    \E j \in 1..Len(baseline) :
        /\ baseline[j].index \in DropSet
        /\ baseline[j].direction = direction
        /\ baseline[j].index < i

\* C3: a diff row is flagged exactly when its packet is preceded in the
\* baseline by a dropped packet of the same direction (HTTP rows and
\* printed rows alike), and there is one row per surviving packet.
C3_ChangedFlag ==
    Reported =>
        /\ IF IsCli THEN Len(printed) = Len(after) ELSE Len(diff) = Len(after)
        /\ \A k \in 1..Len(diff) :
              diff[k].changed <=> DroppedBefore(diff[k].index, diff[k].direction)
        /\ \A k \in 1..Len(printed) :
              (printed[k].changed = "yes")
                  <=> DroppedBefore(printed[k].index, printed[k].direction)

\* a packet dropped; one row flagged, one row not
C3_Witness ==
    /\ Reported /\ DropSet \cap BaseIndices # {}
    /\ \E k \in 1..Len(diff) : diff[k].changed
    /\ \E k \in 1..Len(diff) : ~diff[k].changed

\* explore mode has drawn its drop set
ExploreChose ==
    /\ IsExplore
    /\ \/ pc \in {"drop", "filter", "reassign", "report"}
       \/ pc = "done" /\ attacked # << >>

ClientCount == Cardinality({j \in 1..Len(baseline) : baseline[j].direction = CLIENT_TO_SERVER})

\* C6: the drop set of explore mode has exactly
\* max(0, min(requestedCount, numberOfClientPackets)) pairwise distinct
\* indices of C->S baseline packets in ascending order; when requestedCount
\* is at least the number of client packets, the post-drop trace holds no
\* C->S packet and every S->C packet.
C6_ExploreDropSet ==
    ExploreChose =>
        /\ Len(drop_indices) =
              (IF random_drop < ClientCount
               THEN (IF random_drop < 0 THEN 0 ELSE random_drop)
               ELSE ClientCount)
        /\ \A a, b \in 1..Len(drop_indices) : a < b => drop_indices[a] < drop_indices[b]
        /\ \A a \in 1..Len(drop_indices) :
              \E j \in 1..Len(baseline) :
                 /\ baseline[j].index = drop_indices[a]
                 /\ baseline[j].direction = CLIENT_TO_SERVER
        /\ (Reassigned /\ random_drop >= ClientCount) =>
              /\ \A k \in 1..Len(after) : after[k].direction = SERVER_TO_CLIENT
              /\ \A j \in 1..Len(baseline) :
                    baseline[j].direction = SERVER_TO_CLIENT
                       => \E k \in 1..Len(after) : after[k].index = baseline[j].index

\* more requested than there are client packets: both are dropped and the
\* server packet remains
C6_Witness ==
    /\ ExploreChose /\ Reassigned
    /\ ClientCount = 2 /\ random_drop > ClientCount
    /\ Len(drop_indices) = 2 /\ Len(after) = 1

\* explore mode with k = 0 has returned
ExploreNothingToDrop ==
    /\ IsExplore /\ pc = "done"
    /\ (random_drop <= 0 \/ ClientCount = 0)

\* C10: with k = 0 explore mode reports that nothing is dropped and yields
\* no error outcome: no exception, no error returned to the caller, no
\* packet marked dropped, from the CLI and over HTTP.
C10_NothingToDropIsNoError ==
    ExploreNothingToDrop =>
        /\ out.exc = ""
        /\ "error" \notin out.keys
        /\ attacked = << >>
        /\ \A k \in 1..Len(after) : ~after[k].dropped
        /\ IsCli => \E n \in 1..Len(out.notices) :
                       out.notices[n] \in {"nothing_to_drop", "no_client_packets"}

\* the notices run_demo prints once load, sequence assignment, drop,
\* filtering, reassignment and diffing have returned
CoreStepsDone ==
    /\ Len(out.notices) >= 4
    /\ SubSeq(out.notices, 1, 4) =
          <<"baseline_table", "applying_attack", "post_attack_table", "sequence_diff">>
    /\ Len(printed) = Len(after)

\* C11: when a step of run_demo fails (configuration, pcap_file, profile,
\* drop list, direction or record of the trace) the run stops with the
\* error and no snapshot file exists; a snapshot file exists only once
\* loading, sequence assignment, drop, filtering, reassignment and diffing
\* have all succeeded, the baseline snapshot first and the post-attack
\* snapshot second, and no other command writes one.
C11_SnapshotsOnlyAfterSuccess ==
    /\ (pc = "error" \/ out.exc # "") => logs = << >>
    /\ logs # << >> =>
          /\ cmd = "cli_attack" /\ out.exc = ""
          /\ pc \in {"write_attacked", "done"}
          /\ CoreStepsDone
          /\ logs[1] = [name |-> "baseline_trace", data |-> baseline]
          /\ Len(logs) = (IF pc = "done" THEN 2 ELSE 1)
          /\ Len(logs) = 2 => logs[2] = [name |-> "post_attack_trace", data |-> after]
    /\ (cmd = "cli_attack" /\ pc = "done") => Len(logs) = 2

\* run_demo resolved a non-empty drop list and then failed in the loader,
\* its last step that can fail
C11_Witness ==
    /\ cmd = "cli_attack" /\ pc = "error"
    /\ out.site \in {"direction", "payload_len"}
    /\ drop_indices # << >> /\ logs = << >>

\* the drop list names no packet of the trace
NoPacketDropped == DropSet \cap BaseIndices = {}

\* no row of the diff, returned or printed, is flagged
NoRowChanged ==
    /\ \A k \in 1..Len(diff) : ~diff[k].changed
    /\ \A k \in 1..Len(printed) : printed[k].changed = "no"

\* C13: when no packet is dropped (empty drop list, or one that matches no
\* index), filtering and renumbering the numbered trace gives back the
\* baseline: the same packets in the same order with the same seq_no, and
\* the diff has one row per packet, none flagged; the diff of the baseline
\* against itself, returned by the baseline mode, has no flagged row either.
C13_NoDropIsIdentity ==
    /\ (Reassigned /\ NoPacketDropped) =>
          /\ Len(after) = Len(baseline)
          /\ \A k \in 1..Len(baseline) :
                /\ after[k].index = baseline[k].index
                /\ after[k].seq_no = baseline[k].seq_no
                /\ after[k] = baseline[k]
    /\ (Reported /\ NoPacketDropped) =>
          /\ NoRowChanged
          /\ IF IsCli THEN Len(printed) = Len(baseline) ELSE Len(diff) = Len(baseline)
    /\ (cmd = "api_baseline" /\ pc = "done") =>
          /\ after = baseline /\ NoRowChanged /\ Len(diff) = Len(baseline)

\* a drop list that matches nothing, on a trace with both directions and a
\* repeated direction, after the diff was returned
C13_Witness ==
    /\ Reported /\ drop_indices # << >> /\ NoPacketDropped
    /\ Len(baseline) >= 3 /\ Len(diff) = Len(baseline)
    /\ \E a, b \in 1..Len(baseline) : baseline[a].direction # baseline[b].direction
    /\ \E k \in 1..Len(after) : after[k].seq_no = Some(1)

\* the baseline packets whose index is not in the drop set, in order
Survivors == SelectSeq(baseline, LAMBDA b : b.index \notin DropSet)

\* how many dropped baseline packets of pkt's direction precede it
DroppedAhead(pkt) ==
    Cardinality({j \in 1..Len(baseline) :
                    /\ baseline[j].index \in DropSet
                    /\ baseline[j].direction = pkt.direction
                    /\ baseline[j].index < pkt.index})

\* C14: for a drop set of any size, the post-drop trace holds exactly the
\* baseline packets whose index is not in the set, in baseline order with
\* their index and other fields, and each one's seq_no is its baseline
\* seq_no minus the number of dropped packets of its direction with a
\* smaller index; no seq_no goes up.
C14_PostDropNumbers ==
    Reassigned =>
        /\ Len(after) = Len(Survivors)
        /\ \A k \in 1..Len(Survivors) :
              /\ after[k].index = Survivors[k].index
              /\ after[k].direction = Survivors[k].direction
              /\ after[k].payload_len = Survivors[k].payload_len
              /\ after[k].msg_type = Survivors[k].msg_type
              /\ ~after[k].dropped
              /\ SeqOf(after[k]) = SeqOf(Survivors[k]) - DroppedAhead(Survivors[k])
              /\ SeqOf(after[k]) <= SeqOf(Survivors[k])

\* two packets of one direction dropped: a later packet of that direction
\* goes down by two, a packet of the other direction keeps its number
C14_Witness ==
    /\ Reassigned /\ Cardinality(DropSet \cap BaseIndices) = 2
    /\ \E k \in 1..Len(after) :
          SeqOf(after[k]) = SeqOf(BaseAt(after[k].index)) - 2
    /\ \E k \in 1..Len(after) :
          /\ DroppedAhead(after[k]) = 0
          /\ SeqOf(after[k]) = SeqOf(BaseAt(after[k].index))

(***************************************************************************)
(* SpecDiff: the diff step on arbitrary baseline and post-drop sequences.  *)
(***************************************************************************)
SeqOptions == {None, Some(0), Some(1)}

DiffPacket(i, seq_no) ==
    Packet(i, IF i % 2 = 0 THEN CLIENT_TO_SERVER ELSE SERVER_TO_CLIENT,
           16 * (i + 1), IF i = 0 THEN KEXINIT ELSE NEWKEYS, seq_no, FALSE)

RECURSIVE Ascending(_)
Ascending(S) ==
    IF S = {} THEN << >>
    ELSE LET m == CHOOSE x \in S : \A y \in S : x <= y
         IN <<m>> \o Ascending(S \ {m})

\* baselines: any subset of the indices below DiffLen in index order, each
\* packet with or without a sequence number
DiffBaselines ==
    {[k \in 1..Len(Ascending(S)) |-> DiffPacket(Ascending(S)[k], g[Ascending(S)[k]])] :
        S \in SUBSET (0..(DiffLen - 1)), g \in [0..(DiffLen - 1) -> SeqOptions]}

\* post-drop sequences of at most two packets; index DiffLen is in no baseline
DiffAfters ==
    LET P == {DiffPacket(i, o) : i \in 0..DiffLen, o \in SeqOptions}
    IN {<< >>} \cup {<<p>> : p \in P} \cup {<<p, q>> : p \in P, q \in P}

InitDiff ==
    /\ cmd \in {"cli_explore", "api_explore"}
    /\ pc = "report"
    /\ raw = << >> /\ config = NotAMapping /\ random_drop = 1
    /\ baseline \in DiffBaselines
    /\ after \in DiffAfters
    /\ packets = << >> /\ drop_indices = << >> /\ description = << >>
    /\ attacked = << >> /\ visible = << >>
    /\ diff = << >> /\ printed = << >>
    /\ out = NoOut /\ logs = << >>
    /\ fn_in = << >> /\ fn_targets = << >> /\ fn_op = "none" /\ fn_out = << >>
    /\ heap = EmptyHeap /\ locals = NoLocals

SpecDiff == InitDiff /\ [][Report]_vars

\* the sequence number the baseline holds for index i, if any
BaselineSeq(i) ==
    IF \E j \in 1..Len(baseline) : baseline[j].index = i /\ baseline[j].seq_no # None
    THEN BaseAt(i).seq_no
    ELSE None

\* C4: the diff has one row per post-drop packet, in order, with the
\* packet's index, direction and msg_type, the baseline's number for that
\* index (absent when the baseline has none), the post-drop number, and
\* changed true iff both numbers are present and differ; the printed rows
\* carry the same, "?" standing for an absent number.
C4_DiffRows ==
    pc = "done" =>
        /\ IF IsCli THEN Len(printed) = Len(after) ELSE Len(diff) = Len(after)
        /\ \A k \in 1..Len(diff) :
              /\ diff[k].index = after[k].index
              /\ diff[k].direction = after[k].direction
              /\ diff[k].msg_type = after[k].msg_type
              /\ diff[k].seq_before = BaselineSeq(after[k].index)
              /\ diff[k].seq_after = after[k].seq_no
              /\ diff[k].changed <=>
                    \E x \in BaselineSeq(after[k].index) :
                       \E y \in after[k].seq_no : x # y
        /\ \A k \in 1..Len(printed) :
              /\ printed[k].index = after[k].index
              /\ printed[k].direction = after[k].direction
              /\ printed[k].msg_type = after[k].msg_type
              /\ IF BaselineSeq(after[k].index) = None
                 THEN printed[k].before_str = <<"?">>
                 ELSE /\ AllDigits(printed[k].before_str)
                      /\ Some(DigitsValue(printed[k].before_str))
                            = BaselineSeq(after[k].index)
              /\ IF after[k].seq_no = None
                 THEN printed[k].after_str = <<"?">>
                 ELSE /\ AllDigits(printed[k].after_str)
                      /\ Some(DigitsValue(printed[k].after_str)) = after[k].seq_no
              /\ (printed[k].changed = "yes") <=>
                    \E x \in BaselineSeq(after[k].index) :
                       \E y \in after[k].seq_no : x # y
              /\ printed[k].changed \in {"yes", "no"}

\* a row whose index the baseline lacks, reported unchanged, beside a row
\* whose numbers differ
C4_Witness ==
    /\ pc = "done" /\ Len(diff) = 2
    /\ \A j \in 1..Len(baseline) : baseline[j].index # diff[1].index
    /\ diff[1].seq_before = None /\ diff[1].seq_after # None /\ ~diff[1].changed
    /\ diff[2].changed

(***************************************************************************)
(* SpecSel: the selector on configuration documents of every shape.        *)
(***************************************************************************)
\* elements a YAML list may hold
ListElements ==
    {JInt(0), JInt(2), JStr(<<"2">>), JStr(<<"x">>), JFloat(25), JNull}

\* values of a drop_indices key: missing, a string, lists of up to two elements
DropValues ==
    {Absent, JStr(<<"2">>), JList(<< >>)}
    \cup {JList(<<e>>) : e \in ListElements}
    \cup {JList(<<e, f>>) : e \in ListElements, f \in ListElements}

ProfileValues ==
    {NotAProfile}
    \cup {Profile(dv, ds) : dv \in DropValues, ds \in {Absent, JStr(<<"d">>)}}

ProfilesValues ==
    {NoProfiles, ProfilesOf("null", EmptyDict), ProfilesOf("dict", EmptyDict)}
    \cup {ProfilesOf("dict", [n \in {ProfileP} |-> pv]) : pv \in ProfileValues}

SelConfigs ==
    {Config(TracePath, ps, ap, dv) :
        ps \in ProfilesValues,
        ap \in {Absent, JStr(ProfileP), JStr(ProfileQ), JInt(1)},
        dv \in DropValues}

InitSel ==
    /\ cmd = "api_attack"
    /\ pc = "select"
    /\ raw = << >> /\ random_drop = 1
    /\ config \in SelConfigs
    /\ packets = << >> /\ baseline = << >> /\ drop_indices = << >>
    /\ description = << >> /\ attacked = << >> /\ visible = << >>
    /\ after = << >> /\ diff = << >> /\ printed = << >>
    /\ out = NoOut /\ logs = << >>
    /\ fn_in = << >> /\ fn_targets = << >> /\ fn_op = "none" /\ fn_out = << >>
    /\ heap = EmptyHeap /\ locals = NoLocals

SpecSel == InitSel /\ [][Select]_vars

\* the selector has returned or raised
SelectDone == cmd = "api_attack" /\ pc \in {"drop", "error"}

\* the configuration names an active profile
NamesProfile == config.active_profile.t = "str"

\* the named profile is an entry of profiles
HasEntry ==
    /\ config.profiles.t = "dict"
    /\ config.active_profile.s \in DOMAIN config.profiles.d

\* C7: a configuration naming an active profile without a matching entry
\* in profiles makes select_drop_indices fail (ProfileNotFound): the
\* selector never resolves such a configuration to a drop list, be it the
\* top-level drop_indices or the empty list.
C7_ProfileNotFound ==
    (SelectDone /\ NamesProfile /\ ~HasEntry) => pc = "error"

\* the value the drop list is resolved from: the active profile's, else the
\* top-level one; a missing key stands for the empty list
ResolvedValue ==
    IF NamesProfile /\ HasEntry
    THEN GetOr(config.profiles.d[config.active_profile.s].drop_indices, JList(<< >>))
    ELSE GetOr(config.drop_indices, JList(<< >>))

\* the selector got as far as the drop list
Resolves ==
    ~(NamesProfile /\ config.profiles.t = "dict"
        /\ (~HasEntry \/ config.profiles.d[config.active_profile.s].t # "dict"))

IsIntegerList(v) == v.t = "list" /\ \A k \in 1..Len(v.l) : v.l[k].t = "int"

\* C8: a resolved drop_indices value that is not a list of integers makes
\* select_drop_indices fail with InvalidDropList; on success the indices
\* returned are the integers of the configured list, in order.
C8_InvalidDropList ==
    (SelectDone /\ Resolves) =>
        /\ ~IsIntegerList(ResolvedValue) =>
              pc = "error" /\ out.site \in {"drop_indices", "profile_drop_indices", "int"}
        /\ pc = "drop" =>
              /\ Len(drop_indices) = Len(ResolvedValue.l)
              /\ \A k \in 1..Len(drop_indices) :
                    ResolvedValue.l[k] = JInt(drop_indices[k])

(***************************************************************************)
(* SpecLoad: load_packet_trace on raw records of every shape.              *)
(***************************************************************************)
RawDirections == {JStr(DirChars(d)) : d \in DirectionValues} \cup {JStr(<<"X">>), Absent}
RawLengths == {JInt(64), JStr(<<"1", "2">>), JFloat(25), JStr(<<"x">>), JNull, Absent}
RawLabels == {JStr(KEXINIT), Absent}
RawRecords ==
    {[direction |-> d, payload_len |-> n, msg_type |-> m] :
        d \in RawDirections, n \in RawLengths, m \in RawLabels}

InitLoad ==
    /\ cmd = "cli_baseline"
    /\ pc = "load"
    /\ raw \in UNION {[1..m -> RawRecords] : m \in 0..LoadLen}
    /\ config = NotAMapping /\ random_drop = 1
    /\ packets = << >> /\ baseline = << >> /\ drop_indices = << >>
    /\ description = << >> /\ attacked = << >> /\ visible = << >>
    /\ after = << >> /\ diff = << >> /\ printed = << >>
    /\ out = NoOut /\ logs = << >>
    /\ fn_in = << >> /\ fn_targets = << >> /\ fn_op = "none" /\ fn_out = << >>
    /\ heap = EmptyHeap /\ locals = NoLocals

SpecLoad == InitLoad /\ [][Load]_vars

BadDirection(r) ==
    ~(r.direction.t = "str" /\ \E d \in DirectionValues : r.direction.s = DirChars(d))
\* missing, or neither a number nor a decimal string
BadLength(r) ==
    ~(\/ r.payload_len.t \in {"int", "float"}
      \/ r.payload_len.t = "str" /\ AllDigits(r.payload_len.s))

\* C9: load_packet_trace either returns one packet per record, numbered
\* 0..n-1 in input order, without sequence number, not dropped, with the
\* record's direction, payload_len (as an integer: the number itself, the
\* value of a decimal string, the whole part of a float) and msg_type, or
\* fails and returns no packet; it fails whenever some record has an unknown direction or a
\* missing or non-numeric payload_len, wherever that record stands.
C9_LoadAtomic ==
    pc # "load" =>
        /\ \/ /\ pc = "baseline" /\ out.exc = ""
              /\ Len(packets) = Len(raw)
              /\ \A k \in 1..Len(raw) :
                    /\ packets[k].index = k - 1
                    /\ packets[k].seq_no = None
                    /\ packets[k].dropped = FALSE
                    /\ JStr(DirChars(packets[k].direction)) = raw[k].direction
                    /\ \/ raw[k].payload_len \in
                             {JInt(packets[k].payload_len),
                              JStr(IntStr(packets[k].payload_len))}
                       \/ /\ raw[k].payload_len.t = "float"
                          /\ 10 * packets[k].payload_len <= raw[k].payload_len.i
                          /\ raw[k].payload_len.i < 10 * (packets[k].payload_len + 1)
                    /\ JStr(packets[k].msg_type) = raw[k].msg_type
           \/ pc = "error" /\ out.exc # "" /\ packets = << >>
        /\ (\E k \in 1..Len(raw) : BadDirection(raw[k]) \/ BadLength(raw[k])) =>
              /\ pc = "error"
              /\ out.site \in {"direction", "payload_len", "msg_type"}
        /\ \A k \in 1..Len(raw) :
              (BadDirection(raw[k]) /\ \A j \in 1..(k - 1) :
                    ~BadDirection(raw[j]) /\ ~BadLength(raw[j])
                    /\ raw[j].msg_type # Absent)
                 => out.site = "direction"
        /\ \A k \in 1..Len(raw) :
              (~BadDirection(raw[k]) /\ BadLength(raw[k]) /\ \A j \in 1..(k - 1) :
                    ~BadDirection(raw[j]) /\ ~BadLength(raw[j])
                    /\ raw[j].msg_type # Absent)
                 => out.site = "payload_len"

\* a load that fails on its last record, after a well-formed one
C9_Witness ==
    /\ pc = "error" /\ Len(raw) = 2 /\ packets = << >>
    /\ ~BadDirection(raw[1]) /\ ~BadLength(raw[1]) /\ raw[1].msg_type # Absent
    /\ ~BadDirection(raw[2]) /\ BadLength(raw[2])
    /\ out.site = "payload_len"

(***************************************************************************)
(* SpecHeap: the attack and explore pipelines of web_app.api_run (and of   *)
(* run_demo and cmd_explore, which make the same calls) on Packet and list *)
(* objects, to observe what each call does to the objects it was given.    *)
(***************************************************************************)
\* drop lists: those of a configuration, and the ascending lists of
\* explore mode up to every index of the trace
HeapDropLists ==
    IndexLists(MaxLen) \cup {[k \in 1..n |-> k - 1] : n \in 0..MaxLen}

InitHeap ==
    /\ cmd \in {"api_attack", "api_explore"}
    /\ pc = "h_load"
    /\ raw \in TracesUpTo(MaxLen)
    /\ drop_indices \in HeapDropLists
    /\ config = NotAMapping /\ random_drop = 1
    /\ packets = << >> /\ baseline = << >>
    /\ description = << >> /\ attacked = << >> /\ visible = << >>
    /\ after = << >> /\ diff = << >> /\ printed = << >>
    /\ out = NoOut /\ logs = << >>
    /\ fn_in = << >> /\ fn_targets = << >> /\ fn_op = "none" /\ fn_out = << >>
    /\ heap = EmptyHeap /\ locals = NoLocals

heapFrame ==
    <<inputVars, fnVars, packets, baseline, drop_indices, description, attacked,
      visible, after, diff, printed, out, logs>>

\* packets = load_packet_trace(TRACE_PATH)
HeapLoad ==
    /\ pc = "h_load"
    /\ LET r == heap_load_packet_trace(heap, raw) IN
       /\ heap' = r.heap
       /\ locals' = [locals EXCEPT !.packets = r.result]
    /\ pc' = "h_baseline"
    /\ UNCHANGED heapFrame

\* baseline = compute_sequence_numbers(packets)
HeapBaseline ==
    /\ pc = "h_baseline"
    /\ LET r == heap_compute_sequence_numbers(heap, locals.packets) IN
       /\ heap' = r.heap
       /\ locals' = [locals EXCEPT !.baseline = r.result]
    /\ pc' = "h_drop"
    /\ UNCHANGED heapFrame

\* attacked = apply_drop_indices(baseline, drop_indices=drop_indices)
HeapDrop ==
    /\ pc = "h_drop"
    /\ LET r == heap_apply_drop_indices(heap, locals.baseline, drop_indices) IN
       /\ heap' = r.heap
       /\ locals' = [locals EXCEPT !.attacked = r.result]
    /\ pc' = "h_filter"
    /\ UNCHANGED heapFrame

\* visible = filter_visible_packets(attacked)
HeapFilter ==
    /\ pc = "h_filter"
    /\ LET r == heap_filter_visible_packets(heap, locals.attacked) IN
       /\ heap' = r.heap
       /\ locals' = [locals EXCEPT !.visible = r.result]
    /\ pc' = "h_reassign"
    /\ UNCHANGED heapFrame

\* visible_with_seq = compute_sequence_numbers(visible)
HeapReassign ==
    /\ pc = "h_reassign"
    /\ LET r == heap_compute_sequence_numbers(heap, locals.visible) IN
       /\ heap' = r.heap
       /\ locals' = [locals EXCEPT !.visible_with_seq = r.result]
    /\ pc' = "h_done"
    /\ UNCHANGED heapFrame

NextHeap == HeapLoad \/ HeapBaseline \/ HeapDrop \/ HeapFilter \/ HeapReassign

SpecHeap == InitHeap /\ [][NextHeap]_vars

\* the packets a list object holds now
Deref(l) == [k \in 1..Len(heap.lists[l]) |-> heap.objects[heap.lists[l][k]]]
\* the Packet objects of a list object
ObjectsOf(l) == {heap.lists[l][k] : k \in 1..Len(heap.lists[l])}

\* C12: no call modifies a packet of the list it was given nor that list:
\* whatever has run since, the loaded trace holds every record in order
\* with seq_no absent and dropped = false, the baseline holds every packet
\* with its baseline seq_no and dropped = false, the flagged trace holds the
\* baseline numbers with exactly the flags of the drop list, and the
\* filtered list holds the unflagged packets with their baseline numbers.
C12_InputsUntouched ==
    /\ locals.packets # 0 =>
          Deref(locals.packets) = load_packet_trace(raw).packets
    /\ locals.packets # 0 =>
          \A k \in 1..Len(Deref(locals.packets)) :
              LET pkt == Deref(locals.packets)[k] IN
              pkt.index = k - 1 /\ pkt.seq_no = None /\ ~pkt.dropped
    /\ locals.baseline # 0 =>
          /\ Len(Deref(locals.baseline)) = Len(raw)
          /\ \A k \in 1..Len(raw) :
                LET pkt == Deref(locals.baseline)[k] IN
                /\ pkt.index = k - 1 /\ ~pkt.dropped
                /\ pkt.seq_no = Some(RankIn(Deref(locals.packets), k))
    /\ locals.attacked # 0 =>
          /\ Len(Deref(locals.attacked)) = Len(raw)
          /\ \A k \in 1..Len(raw) :
                LET pkt == Deref(locals.attacked)[k] IN
                /\ pkt.index = k - 1
                /\ pkt.seq_no = Deref(locals.baseline)[k].seq_no
                /\ pkt.dropped <=> (k - 1) \in SetOf(drop_indices)
    /\ locals.visible # 0 =>
          /\ Len(Deref(locals.visible)) =
                Cardinality((0..(Len(raw) - 1)) \ SetOf(drop_indices))
          /\ \A k \in 1..Len(Deref(locals.visible)) :
                LET pkt == Deref(locals.visible)[k] IN
                /\ ~pkt.dropped /\ pkt.index \notin SetOf(drop_indices)
                /\ pkt.seq_no = Deref(locals.baseline)[pkt.index + 1].seq_no

\* the whole pipeline has run with two packets dropped; the filtered list
\* shares its objects with the flagged trace, and a survivor received a new
\* number in the last list while its baseline object kept the old one
C12_Witness ==
    /\ pc = "h_done"
    /\ Len(Deref(locals.visible_with_seq)) = Len(raw) - 2
    /\ ObjectsOf(locals.visible) \subseteq ObjectsOf(locals.attacked)
    /\ ObjectsOf(locals.visible) # {}
    /\ ObjectsOf(locals.baseline) \cap ObjectsOf(locals.packets) = {}
    /\ \E k \in 1..Len(Deref(locals.visible_with_seq)) :
          LET pkt == Deref(locals.visible_with_seq)[k] IN
          pkt.seq_no # Deref(locals.baseline)[pkt.index + 1].seq_no

=============================================================================
